---- MODULE Spec2Model ----
(***************************************************************************)
(* A model of datastore/DataStore.py: the DataStore facade over a          *)
(* diskcache.FanoutCache bound to one directory (cache_path).              *)
(*                                                                         *)
(* Strings are sequences of one-character strings, so that startswith,     *)
(* join and split are computed and not assumed.                            *)
(*                                                                         *)
(* The storage engine.  FanoutCache(directory, shards=n) opens the n Cache *)
(* shards directory/000 .. directory/(n-1); a key is routed to the shard   *)
(* hash(key) mod n; iteration, len() and clear() range over the n shards   *)
(* of the handle.  Two handles on one directory therefore read and write   *)
(* the same shards: `disk` is the content of the directory, a handle is a  *)
(* shard count together with its connection state.                         *)
(*                                                                         *)
(* Specifications.  Spec: the calls of one store, each call one step.      *)
(* CodecSpec: makey alone.  SharedSpec: two stores of different names on   *)
(* one handle.  MigSpec: init_cache and copy_cache statement by statement, *)
(* an engine call of the copy may raise.  OpsSpec: every public operation  *)
(* with its default close setting.  ConcSpec: get_startswith and           *)
(* clear_keys engine call by engine call, next to another writer.          *)
(***************************************************************************)
EXTENDS Integers, Sequences, FiniteSets, TLC

\* ------------------------------------------------------------------ bounds
MaxHandles == 3     \* FanoutCache objects constructed on cache_path
MaxEntries == 2     \* rows on disk, all shards together

\* --------------------------------------------------------------- constants
delim == <<":">>    \* DataStore.delim
TTL == 5            \* the relative expiration callers pass to set, in seconds
NoneTime == 0       \* Python's None where a time or a duration is expected

\* the shard counts callers ask for, and the shards cache_path can hold
ShardCounts == {1, 2}
ShardIds == {n - 1 : n \in ShardCounts}

Names == {<<>>, <<"c">>}        \* DataStore.name: "" or "c"

eA == <<"A">>
eB == <<"B">>
eAB == <<"A", "B">>

\* the logical (sequence) keys the callers use, and the empty sequence
LKeys == {<<eA>>, <<eA, eB>>, <<eAB, eB>>}
\* keys passed as plain strings
StrKeys == {<<"c", ":", "A", ":", "A">>}
\* prefixes passed to get_startswith / clear_keys
Prefixes == {<<eA>>}

Values == {"v1", "v2"}
Tags == {"None", "t"}

VARIABLES
  name,       \* DataStore.name of the (sub)class, fixed at construction
  shards,     \* self.shards
  expire,     \* self.expire
  disk,       \* disk[i]: the rows of shard i of cache_path, key -> entry
  cache,      \* self.cache: [id, n, open], the id-th FanoutCache made on
              \* cache_path, its shard count, whether it is connected
  released,   \* the handles on cache_path the store does not refer to (any
              \* more), oldest first: whether each is connected
  now,        \* time.time()
  last,       \* the last call: what was asked and what came back
  snap,       \* history: what the active handle held when the last call, an
              \* init_cache for another shard count that returned, began
  run         \* the call that is between two of its engine calls: where it
              \* is and its local variables

vars == <<name, shards, expire, disk, cache, released, now, last, snap, run>>

\* ----------------------------------------------------------------- strings
RECURSIVE JoinNoDelim(_)
\* a join that forgets the delimiter
JoinNoDelim(elts) ==
  IF elts = <<>> THEN <<>> ELSE elts[1] \o JoinNoDelim(Tail(elts))

RECURSIVE Join(_)
\* delim.join(elts)
Join(elts) ==
  IF elts = <<>> THEN <<>>
  ELSE IF Len(elts) = 1 THEN elts[1]
  ELSE elts[1] \o delim \o Join(Tail(elts))

\* s.startswith(p)
StartsWith(s, p) == Len(p) <= Len(s) /\ SubSeq(s, 1, Len(p)) = p

\* makey(*args) raises IndexError on args[0]
MakeyRaises(args) == name # <<>> /\ args = <<>>

\* makey leaving the name out of every key
MakeyNoName(args) == Join(args)

\* makey with the test for an already prefixed first element left out
MakeyAlwaysPrefixes(args) ==
  IF name = <<>> THEN Join(args) ELSE Join(<<name>> \o args)

\* makey(*args), as_tuple=False
Makey(args) ==
  IF name = <<>> \/ StartsWith(args[1], name \o delim)
  THEN Join(args)
  ELSE Join(<<name>> \o args)

\* --------------------------------------------------------- storage engine
Code(ch) == IF ch = "B" THEN 2 ELSE 1

RECURSIVE Hash(_)
\* Disk.hash(key)
Hash(k) == IF k = <<>> THEN 0 ELSE Code(k[1]) + Hash(Tail(k))

\* the shard of key k in a handle of n shards
ShardOf(k, n) == Hash(k) % n

Entry(v, e, t) == [v |-> v, e |-> e, t |-> t]

\* a shard without rows
EmptyShard == [x \in {} |-> Entry("None", NoneTime, "None")]

\* key in cache
Has(d, n, k) == k \in DOMAIN d[ShardOf(k, n)]

\* cache.get(key, default, expire_time=True, tag=True)
Lookup(d, n, k, default) ==
  IF Has(d, n, k) THEN d[ShardOf(k, n)][k] ELSE Entry(default, NoneTime, "None")

\* the rows of a shard after set(key, ...)
Put(sh, k, e) == [x \in (DOMAIN sh) \cup {k} |-> IF x = k THEN e ELSE sh[x]]

\* the rows of a shard after del [key]
Drop(sh, k) == [x \in (DOMAIN sh) \ {k} |-> sh[x]]

\* cache.set(key, value, expire=ex, tag=t) at time `at`: ex counts from the set
EngineSet(d, n, k, v, ex, t, at) ==
  [d EXCEPT ![ShardOf(k, n)] =
     Put(@, k, Entry(v, IF ex = NoneTime THEN NoneTime ELSE at + ex, t))]

\* cache.add(...): a set when the key is absent, nothing otherwise
EngineAdd(d, n, k, v, ex, t, at) ==
  IF Has(d, n, k) THEN d ELSE EngineSet(d, n, k, v, ex, t, at)

\* del cache[key], the key being present
EngineDel(d, n, k) == [d EXCEPT ![ShardOf(k, n)] = Drop(@, k)]

\* cache.clear()
EngineClear(d, n) == [i \in DOMAIN d |-> IF i < n THEN EmptyShard ELSE d[i]]

\* the rows of a shard that are among `keep`
Keep(sh, keep) == [x \in (DOMAIN sh) \cap keep |-> sh[x]]

\* cache.evict(tag): the rows carrying the tag go
EngineEvict(d, n, tag) ==
  [i \in DOMAIN d |->
     IF i < n THEN Keep(d[i], {k \in DOMAIN d[i] : d[i][k].t # tag}) ELSE d[i]]

\* cache.expire() at time `at`: the rows whose expiration time has passed go
EngineExpire(d, n, at) ==
  [i \in DOMAIN d |->
     IF i < n
     THEN Keep(d[i], {k \in DOMAIN d[i] : d[i][k].e = NoneTime \/ d[i][k].e >= at})
     ELSE d[i]]

RECURSIVE SetToSeq(_)
SetToSeq(S) ==
  IF S = {} THEN <<>>
  ELSE LET x == CHOOSE y \in S : TRUE IN <<x>> \o SetToSeq(S \ {x})

RECURSIVE IterFrom(_, _, _)
IterFrom(d, n, i) ==
  IF i >= n THEN <<>> ELSE SetToSeq(DOMAIN d[i]) \o IterFrom(d, n, i + 1)

\* list(cache): the keys of shard 0, then of shard 1, ...
Iter(d, n) == IterFrom(d, n, 0)

\* len(cache)
CacheLen(d, n) == Len(Iter(d, n))

\* rows on disk, all shards
Rows(d) == CacheLen(d, Cardinality(ShardIds))

\* ------------------------------------------------------------- the handles
\* any engine call through a handle connects it; close() disconnects it
Opened(h) == [h EXCEPT !.open = TRUE]
Closed(h) == [h EXCEPT !.open = FALSE]
AfterCall(h, close) == IF close THEN Closed(h) ELSE Opened(h)

\* the shard count of the active handle
N == cache.n

\* a key argument: a list/tuple of elements or a plain string
KeyArgs == {<<"list", lk>> : lk \in LKeys \cup {<<>>}} \cup {<<"str", sk>> : sk \in StrKeys}
IsList(key) == key[1] = "list"
KeyRaises(key) == IsList(key) /\ MakeyRaises(key[2])
\* isinstance(key, (tuple, list)) ? self.makey(*key) : key
PhysKey(key) == IF IsList(key) THEN Makey(key[2]) ELSE key[2]

\* a call as its caller sees it: the operation, its key argument, its flags,
\* the exception raised ("no" when it returned) and the value returned
Call(op, key, args, raised, ret) ==
  [op |-> op, key |-> key, args |-> args, raised |-> raised, ret |-> ret]

\* the keys a handle lists
KeySet(d, n) == {Iter(d, n)[i] : i \in 1..CacheLen(d, n)}

\* what a handle holds: every listed key with the value and the tag get() finds
Entries(d, n) ==
  {<<k, Lookup(d, n, k, "None").v, Lookup(d, n, k, "None").t>> : k \in KeySet(d, n)}

\* `failed`: the shard count of the init_cache that failed since, 0 when none
NoSnap == [valid |-> FALSE, entries |-> {}, failed |-> 0]

\* the caller is between two calls
Idle == Call("idle", <<>>, <<>>, "no", "None")

\* the locals of a call in progress: the statement it is at, the keys its loop
\* has still to visit, what it gathered so far, the handle it constructed
Run(pc, keys, acc, new) == [pc |-> pc, keys |-> keys, acc |-> acc, new |-> new]
NoHandle == [id |-> 0, n |-> 0, open |-> FALSE]
\* no call is in progress
NoRun == Run("none", <<>>, <<>>, NoHandle)

\* ---------------------------------------------------------------- resizing
RECURSIVE CopyKeys(_, _, _, _, _)
\* the loop of copy_cache over the listed keys
CopyKeys(d, keys, srcN, dstN, at) ==
  IF keys = <<>> THEN d
  ELSE LET e == Lookup(d, srcN, keys[1], "None")
       IN CopyKeys(EngineSet(d, dstN, keys[1], e.v, e.e, e.t, at),
                   Tail(keys), srcN, dstN, at)

\* DataStore.copy_cache(src_cache, dst_cache)
CopyCache(d, srcN, dstN, at) ==
  LET cleared == EngineClear(d, dstN)
  IN CopyKeys(cleared, Iter(cleared, srcN), srcN, dstN, at)

\* the cache argument of init_cache: None, a FanoutCache on cache_path with n
\* shards, or a FanoutCache on another directory holding `rows` rows
NoCache == [dir |-> "none", n |-> 0, rows |-> 0]
Supplied ==
  {NoCache} \cup {[dir |-> "own", n |-> m, rows |-> 0] : m \in ShardCounts}
            \cup {[dir |-> "other", n |-> 1, rows |-> r] : r \in {0, 1}}

\* bool(cache): a FanoutCache is falsy when len(cache) == 0
Truthy(sup) ==
  \/ sup.dir = "own" /\ CacheLen(disk, sup.n) > 0
  \/ sup.dir = "other" /\ sup.rows > 0

\* init_cache runs at a later time than the calls before it
InitCache(sArg, sup) ==
  LET s == IF sArg = 0 THEN shards ELSE sArg              \* shards or self.shards
      at == now + 1
      \* cache or FanoutCache(self.cache_path, shards=shards, ...)
      new == IF Truthy(sup) THEN [id |-> cache.id + 1, n |-> sup.n, open |-> TRUE]
             ELSE IF sup.dir = "own" THEN [id |-> cache.id + 2, n |-> s, open |-> TRUE]
             ELSE [id |-> cache.id + 1, n |-> s, open |-> TRUE]
      \* bool(self.cache) connects the old handle; a falsy handle of the
      \* caller's is dropped as bool(cache) left it, connected
      left == IF sup.dir = "own" /\ ~Truthy(sup)
              THEN <<Opened(cache).open, TRUE>> ELSE <<Opened(cache).open>>
      copy == CacheLen(disk, N) > 0 /\ s # shards          \* self.cache and ...
  IN /\ last = Idle
     /\ IF Truthy(sup) /\ sup.dir # "own"
        THEN /\ last' = Call("init_cache", <<>>, <<sArg, sup>>, "Exception", "None")
             /\ snap' = NoSnap
             /\ UNCHANGED <<run, name, shards, expire, disk, cache, released, now>>
        ELSE /\ new.id <= MaxHandles
             /\ now' = at
             /\ disk' = IF copy THEN CopyCache(disk, N, new.n, at) ELSE disk
             /\ Rows(disk') <= MaxEntries
             /\ cache' = Closed(new)
             /\ released' = released \o left
             /\ last' = Call("init_cache", <<>>, <<sArg, sup>>, "no", "None")
             /\ snap' = [valid |-> s # shards, entries |-> Entries(disk, N), failed |-> 0]
             /\ UNCHANGED <<run, name, shards, expire>>

\* ---- init_cache(shards=sArg) statement by statement, the engine calls of
\* copy_cache one at a time; an engine call of the copy loop may raise
MigBegin(sArg) ==
  LET s == IF sArg = 0 THEN shards ELSE sArg              \* shards or self.shards
      \* FanoutCache(self.cache_path, shards=shards, ...): connected; it is
      \* one more handle than the active one and those dropped so far
      new == [id |-> Len(released) + 2, n |-> s, open |-> TRUE]
      copy == CacheLen(disk, N) > 0 /\ s # shards          \* self.cache and ...
  IN /\ last = Idle
     /\ new.id <= MaxHandles
     /\ now' = now + 1
     /\ cache' = Opened(cache)                             \* bool(self.cache)
     /\ run' = Run(IF copy THEN "clear" ELSE "swap", <<>>, <<>>, new)
     /\ last' = Call("init_cache", <<>>, <<sArg, NoCache>>, "running", "None")
     /\ snap' = IF snap.failed = s THEN snap
                ELSE [valid |-> s # shards, entries |-> Entries(disk, N), failed |-> 0]
     /\ UNCHANGED <<name, shards, expire, disk, released>>

\* dst_cache.clear(); list(src_cache)
MigClear ==
  /\ run.pc = "clear"
  /\ disk' = EngineClear(disk, run.new.n)
  /\ run' = Run(IF Iter(disk', N) = <<>> THEN "swap" ELSE "copy", Iter(disk', N), <<>>, run.new)
  /\ UNCHANGED <<name, shards, expire, cache, released, now, last, snap>>

\* one turn of the loop: src_cache.get(key, ...); dst_cache.set(key, ...)
MigCopy ==
  /\ run.pc = "copy"
  /\ LET key == run.keys[1]
         e == Lookup(disk, N, key, "None")
     IN /\ disk' = EngineSet(disk, run.new.n, key, e.v, e.e, e.t, now)
        /\ run' = Run(IF Tail(run.keys) = <<>> THEN "swap" ELSE "copy",
                      Tail(run.keys), run.acc \o <<key>>, run.new)
  /\ Rows(disk') <= MaxEntries
  /\ UNCHANGED <<name, shards, expire, cache, released, now, last, snap>>

\* the engine raises in a turn of the loop (the disk is full): the exception
\* leaves copy_cache and init_cache, the new handle is dropped as it is
MigFail ==
  /\ run.pc = "copy"
  /\ last' = [last EXCEPT !.raised = "OSError"]
  /\ released' = released \o <<run.new.open>>
  /\ snap' = [snap EXCEPT !.failed = run.new.n]
  /\ run' = NoRun
  /\ UNCHANGED <<name, shards, expire, disk, cache, now>>

\* self.cache = cache; self.close()
MigSwap ==
  /\ run.pc = "swap"
  /\ cache' = Closed(run.new)
  /\ released' = released \o <<cache.open>>
  /\ last' = [last EXCEPT !.raised = "no"]
  /\ run' = NoRun
  /\ UNCHANGED <<name, shards, expire, disk, now, snap>>

\* ------------------------------------------------------------------ getters
Get(key, close) ==
  /\ last = Idle
  /\ IF KeyRaises(key)
     THEN /\ last' = Call("get", key, <<close>>, "IndexError", "None")
          /\ UNCHANGED cache
     ELSE /\ last' = Call("get", key, <<close>>, "no",
                          Lookup(disk, N, PhysKey(key), "default").v)
          /\ cache' = AfterCall(cache, close)
  /\ snap' = NoSnap
  /\ UNCHANGED <<run, name, shards, expire, disk, released, now>>

RECURSIVE Scan(_, _, _, _, _)
\* the loop of get_startswith over the listed keys; self.cache[key] raises
\* KeyError when the key is not found in its shard
Scan(d, n, keys, match_key, keys_only) ==
  IF keys = <<>> THEN [raised |-> "no", items |-> <<>>]
  ELSE LET key == keys[1]
           rest == Scan(d, n, Tail(keys), match_key, keys_only)
       IN IF ~StartsWith(key, match_key) THEN rest
          ELSE IF keys_only
          THEN [rest EXCEPT !.items = <<key>> \o @]
          ELSE IF ~Has(d, n, key) THEN [raised |-> "KeyError", items |-> <<>>]
          ELSE IF rest.raised # "no" THEN rest
          ELSE [rest EXCEPT !.items = <<<<key, d[ShardOf(key, n)][key].v>>>> \o @]

\* get_startswith forgetting the delimiter of the whole-element match
MatchKeyNoDelim(match_elts, match_part) == Makey(match_elts)

\* match_key of get_startswith
MatchKey(match_elts, match_part) ==
  IF match_part THEN Makey(match_elts) ELSE Makey(match_elts) \o delim

GetStartswith(match_elts, match_part, keys_only) ==
  /\ last = Idle
  /\ IF MakeyRaises(match_elts)
     THEN /\ last' = Call("get_startswith", match_elts, <<match_part, keys_only>>,
                          "IndexError", <<>>)
          /\ UNCHANGED cache
     ELSE LET r == Scan(disk, N, Iter(disk, N), MatchKey(match_elts, match_part),
                        keys_only)
          IN /\ last' = Call("get_startswith", match_elts, <<match_part, keys_only>>,
                             r.raised, r.items)
             /\ cache' = IF r.raised = "no" THEN Closed(cache) ELSE Opened(cache)
  /\ snap' = NoSnap
  /\ UNCHANGED <<run, name, shards, expire, disk, released, now>>

\* ------------------------------------------------------------------ setters
\* expire = expire or self.expire
OrExpire(ex) == IF ex = NoneTime THEN expire ELSE ex

Set(key, value, ex, tag, close) ==
  /\ last = Idle
  /\ IF KeyRaises(key)
     THEN /\ last' = Call("set", key, <<close, value>>, "IndexError", "None")
          /\ UNCHANGED <<cache, disk>>
     ELSE /\ disk' = EngineSet(disk, N, PhysKey(key), value, OrExpire(ex), tag, now)
          /\ Rows(disk') <= MaxEntries
          /\ last' = Call("set", key, <<close, value>>, "no", "None")
          /\ cache' = AfterCall(cache, close)
  /\ snap' = NoSnap
  /\ UNCHANGED <<run, name, shards, expire, released, now>>

\* add calling the engine's set
AddOverwrites(key, value, ex, tag, close) ==
  /\ last = Idle
  /\ ~KeyRaises(key)
  /\ disk' = EngineSet(disk, N, PhysKey(key), value, OrExpire(ex), tag, now)
  /\ Rows(disk') <= MaxEntries
  /\ last' = Call("add", key, <<close, value>>, "no", "None")
  /\ cache' = AfterCall(cache, close)
  /\ snap' = NoSnap
  /\ UNCHANGED <<run, name, shards, expire, released, now>>

Add(key, value, ex, tag, close) ==
  /\ last = Idle
  /\ IF KeyRaises(key)
     THEN /\ last' = Call("add", key, <<close, value>>, "IndexError", "None")
          /\ UNCHANGED <<cache, disk>>
     ELSE /\ disk' = EngineAdd(disk, N, PhysKey(key), value, OrExpire(ex), tag, now)
          /\ Rows(disk') <= MaxEntries
          /\ last' = Call("add", key, <<close, value>>, "no", "None")
          /\ cache' = AfterCall(cache, close)
  /\ snap' = NoSnap
  /\ UNCHANGED <<run, name, shards, expire, released, now>>

\* ----------------------------------------------------------------- deleters
\* delete returning quietly when the key is absent
DeleteSilently(key, close) ==
  /\ last = Idle
  /\ ~KeyRaises(key)
  /\ disk' = IF Has(disk, N, PhysKey(key)) THEN EngineDel(disk, N, PhysKey(key)) ELSE disk
  /\ last' = Call("delete", key, <<close>>, "no", "None")
  /\ cache' = AfterCall(cache, close)
  /\ snap' = NoSnap
  /\ UNCHANGED <<run, name, shards, expire, released, now>>

Delete(key, close) ==
  /\ last = Idle
  /\ IF KeyRaises(key)
     THEN /\ last' = Call("delete", key, <<close>>, "IndexError", "None")
          /\ UNCHANGED <<cache, disk>>
     ELSE IF ~Has(disk, N, PhysKey(key))
     THEN /\ last' = Call("delete", key, <<close>>, "KeyError", "None")
          /\ cache' = Opened(cache)
          /\ UNCHANGED disk
     ELSE /\ disk' = EngineDel(disk, N, PhysKey(key))
          /\ last' = Call("delete", key, <<close>>, "no", "None")
          /\ cache' = AfterCall(cache, close)
  /\ snap' = NoSnap
  /\ UNCHANGED <<run, name, shards, expire, released, now>>

\* clear_keys leaving its loop after the first key
DelKeysFirst(d, n, keys) ==
  IF keys = <<>> THEN [raised |-> "no", disk |-> d]
  ELSE IF ~Has(d, n, keys[1]) THEN [raised |-> "KeyError", disk |-> d]
  ELSE [raised |-> "no", disk |-> EngineDel(d, n, keys[1])]

RECURSIVE DelKeys(_, _, _)
\* the loop of clear_keys: del self.cache[key] for each listed key
DelKeys(d, n, keys) ==
  IF keys = <<>> THEN [raised |-> "no", disk |-> d]
  ELSE IF ~Has(d, n, keys[1]) THEN [raised |-> "KeyError", disk |-> d]
  ELSE DelKeys(EngineDel(d, n, keys[1]), n, Tail(keys))

ClearKeys(startswith, close) ==
  /\ last = Idle
  /\ IF MakeyRaises(startswith)
     THEN /\ last' = Call("clear_keys", startswith, <<close>>, "IndexError", <<>>)
          /\ UNCHANGED <<cache, disk>>
     ELSE LET keys == Scan(disk, N, Iter(disk, N), MatchKey(startswith, FALSE),
                           TRUE).items
              r == DelKeys(disk, N, keys)
          IN /\ disk' = r.disk
             /\ last' = Call("clear_keys", startswith, <<close>>, r.raised, keys)
             /\ cache' = IF r.raised # "no" THEN Opened(cache)
                         ELSE IF close \/ keys = <<>> THEN Closed(cache)
                         ELSE Opened(cache)
  /\ snap' = NoSnap
  /\ UNCHANGED <<run, name, shards, expire, released, now>>

\* ------------------------------------------------ the closing wrappers
Evict(tag) ==
  /\ last = Idle
  /\ disk' = EngineEvict(disk, N, tag)
  /\ last' = Call("evict", <<>>, <<tag>>, "no", CacheLen(disk, N) - CacheLen(disk', N))
  /\ cache' = Closed(cache)
  /\ snap' = NoSnap
  /\ UNCHANGED <<run, name, shards, expire, released, now>>

Expire ==
  /\ last = Idle
  /\ disk' = EngineExpire(disk, N, now)
  /\ last' = Call("expire", <<>>, <<>>, "no", CacheLen(disk, N) - CacheLen(disk', N))
  /\ cache' = Closed(cache)
  /\ snap' = NoSnap
  /\ UNCHANGED <<run, name, shards, expire, released, now>>

\* check(fix=True) on a consistent cache: no warning, nothing to fix
Check ==
  /\ last = Idle
  /\ last' = Call("check", <<>>, <<>>, "no", <<>>)
  /\ cache' = Closed(cache)
  /\ snap' = NoSnap
  /\ UNCHANGED <<run, name, shards, expire, disk, released, now>>

\* volume(): the size on disk, here one unit a row
Volume ==
  /\ last = Idle
  /\ last' = Call("volume", <<>>, <<>>, "no", CacheLen(disk, N))
  /\ cache' = Closed(cache)
  /\ snap' = NoSnap
  /\ UNCHANGED <<run, name, shards, expire, disk, released, now>>

\* ------------------------------------------------------- items, bulk writes
\* items forgetting to close after its loop of get(key, close=False)
ItemsNoClose(as_dict) ==
  /\ last = Idle
  /\ last' = Call("items", <<>>, <<as_dict>>, "no", <<>>)
  /\ cache' = Opened(cache)
  /\ snap' = NoSnap
  /\ UNCHANGED <<run, name, shards, expire, disk, released, now>>

Items(as_dict) ==
  LET keys == Iter(disk, N)
      items == [i \in 1..Len(keys) |-> <<keys[i], Lookup(disk, N, keys[i], "None").v>>]
  IN /\ last = Idle
     /\ last' = Call("items", <<>>, <<as_dict>>, "no",
                     IF as_dict THEN {items[i] : i \in 1..Len(items)} ELSE items)
     /\ cache' = Closed(cache)
     /\ snap' = NoSnap
     /\ UNCHANGED <<run, name, shards, expire, disk, released, now>>

RECURSIVE WriteAll(_, _, _, _, _, _, _)
\* the loop of set_from_dict over data_dict.items(): self.add / self.set with
\* close=False; the engine raises at its failAt-th write (never when 0);
\* `calls` counts the engine calls made, the one that raised included
WriteAll(d, n, items, exclude_keys, add, failAt, calls) ==
  IF items = <<>> THEN [raised |-> "no", disk |-> d, calls |-> calls]
  ELSE LET key == items[1][1]
           value == items[1][2]
       IN IF key \in exclude_keys
          THEN WriteAll(d, n, Tail(items), exclude_keys, add, failAt, calls)
          ELSE IF KeyRaises(key)
          THEN [raised |-> "IndexError", disk |-> d, calls |-> calls]
          ELSE IF failAt = calls + 1
          THEN [raised |-> "OSError", disk |-> d, calls |-> calls + 1]
          ELSE WriteAll(IF add
                        THEN EngineAdd(d, n, PhysKey(key), value, expire, "None", now)
                        ELSE EngineSet(d, n, PhysKey(key), value, expire, "None", now),
                        n, Tail(items), exclude_keys, add, failAt, calls + 1)

SetFromDict(data_dict, exclude_keys, add, close, failAt) ==
  LET r == WriteAll(disk, N, data_dict, exclude_keys, add, failAt, 0)
  IN /\ last = Idle
     /\ disk' = r.disk
     /\ Rows(disk') <= MaxEntries
     /\ last' = Call("set_from_dict", data_dict, <<close, add>>, r.raised, "None")
     /\ cache' = IF r.raised = "no" /\ close THEN Closed(cache)
                 ELSE IF r.calls > 0 THEN Opened(cache) ELSE cache
     /\ snap' = NoSnap
     /\ UNCHANGED <<run, name, shards, expire, released, now>>

\* ------------------------------------------------------------------ clearing
Clear(close) ==
  /\ last = Idle
  /\ disk' = EngineClear(disk, N)
  /\ last' = Call("clear", <<>>, <<close>>, "no", "None")
  /\ cache' = AfterCall(cache, close)
  /\ snap' = NoSnap
  /\ UNCHANGED <<run, name, shards, expire, released, now>>

\* clear_all(): self.clear()
ClearAll ==
  /\ last = Idle
  /\ disk' = EngineClear(disk, N)
  /\ last' = Call("clear_all", <<>>, <<>>, "no", "None")
  /\ cache' = AfterCall(cache, TRUE)
  /\ snap' = NoSnap
  /\ UNCHANGED <<run, name, shards, expire, released, now>>

RECURSIVE DelKeysUntil(_, _, _, _, _)
\* the loop of clear_keys when the engine raises at its failAt-th delete
DelKeysUntil(d, n, keys, failAt, calls) ==
  IF keys = <<>> THEN [raised |-> "no", disk |-> d]
  ELSE IF failAt = calls + 1 THEN [raised |-> "OSError", disk |-> d]
  ELSE IF ~Has(d, n, keys[1]) THEN [raised |-> "KeyError", disk |-> d]
  ELSE DelKeysUntil(EngineDel(d, n, keys[1]), n, Tail(keys), failAt, calls + 1)

\* clear_keys(startswith) whose failAt-th `del self.cache[key]` raises
ClearKeysFault(startswith, close, failAt) ==
  /\ last = Idle
  /\ ~MakeyRaises(startswith)
  /\ LET keys == Scan(disk, N, Iter(disk, N), MatchKey(startswith, FALSE), TRUE).items
         r == DelKeysUntil(disk, N, keys, failAt, 0)
     IN /\ r.raised # "no"
        /\ disk' = r.disk
        /\ last' = Call("clear_keys", startswith, <<close>>, r.raised, keys)
        /\ cache' = Opened(cache)
  /\ snap' = NoSnap
  /\ UNCHANGED <<run, name, shards, expire, released, now>>

\* get_startswith(match_elts) with match_elts neither a list or tuple nor a
\* str, int or float: return [] at once
GetStartswithOther ==
  /\ last = Idle
  /\ last' = Call("get_startswith", <<>>, <<FALSE, FALSE, "other">>, "no", <<>>)
  /\ snap' = NoSnap
  /\ UNCHANGED <<run, name, shards, expire, disk, cache, released, now>>

\* ---- get_startswith and clear_keys engine call by engine call, while
\* another process writes to cache_path through a handle of its own
\* list(self.cache), on the way into the loop of get_startswith
ScanBegin(match_elts, match_part, keys_only) ==
  /\ last = Idle
  /\ ~MakeyRaises(match_elts)
  /\ run' = Run("scan", Iter(disk, N), <<>>, NoHandle)
  /\ cache' = Opened(cache)
  /\ last' = Call("get_startswith", match_elts, <<match_part, keys_only>>, "running", <<>>)
  /\ snap' = [valid |-> TRUE, entries |-> Entries(disk, N), failed |-> 0]
  /\ UNCHANGED <<name, shards, expire, disk, released, now>>

\* one turn of the loop: the test of the key and, for a match, self.cache[key]
ScanStep ==
  /\ run.pc = "scan" /\ run.keys # <<>>
  /\ LET key == run.keys[1]
         keys_only == last.args[2]
     IN IF ~StartsWith(key, MatchKey(last.key, last.args[1]))
        THEN run' = [run EXCEPT !.keys = Tail(@)] /\ UNCHANGED last
        ELSE IF keys_only
        THEN run' = [run EXCEPT !.keys = Tail(@), !.acc = @ \o <<key>>] /\ UNCHANGED last
        ELSE IF ~Has(disk, N, key)
        THEN run' = NoRun /\ last' = [last EXCEPT !.raised = "KeyError"]
        ELSE /\ run' = [run EXCEPT !.keys = Tail(@),
                                   !.acc = @ \o <<<<key, disk[ShardOf(key, N)][key].v>>>>]
             /\ UNCHANGED last
  /\ UNCHANGED <<name, shards, expire, disk, cache, released, now, snap>>

\* self.close(); return matches
ScanEnd ==
  /\ run.pc = "scan" /\ run.keys = <<>>
  /\ cache' = Closed(cache)
  /\ last' = [last EXCEPT !.raised = "no", !.ret = run.acc]
  /\ run' = NoRun
  /\ UNCHANGED <<name, shards, expire, disk, released, now, snap>>

\* clear_keys: self.get_startswith(startswith, keys_only=True), which makes no
\* engine call after list(self.cache) and closes, on the way into the loop
ClearBegin(startswith, close) ==
  /\ last = Idle
  /\ ~MakeyRaises(startswith)
  /\ LET keys == Scan(disk, N, Iter(disk, N), MatchKey(startswith, FALSE), TRUE).items
     IN /\ run' = Run("del", keys, <<>>, NoHandle)
        /\ last' = Call("clear_keys", startswith, <<close>>, "running", keys)
  /\ cache' = Closed(cache)
  /\ snap' = NoSnap
  /\ UNCHANGED <<name, shards, expire, disk, released, now>>

\* one turn of the loop: del self.cache[key]
ClearStep ==
  /\ run.pc = "del" /\ run.keys # <<>>
  /\ cache' = Opened(cache)
  /\ IF ~Has(disk, N, run.keys[1])
     THEN run' = NoRun /\ last' = [last EXCEPT !.raised = "KeyError"] /\ UNCHANGED disk
     ELSE /\ disk' = EngineDel(disk, N, run.keys[1])
          /\ run' = [run EXCEPT !.keys = Tail(@)]
          /\ UNCHANGED last
  /\ UNCHANGED <<name, shards, expire, released, now, snap>>

\* if close: self.close()
ClearEnd ==
  /\ run.pc = "del" /\ run.keys = <<>>
  /\ cache' = IF last.args[1] THEN Closed(cache) ELSE cache
  /\ last' = [last EXCEPT !.raised = "no"]
  /\ run' = NoRun
  /\ UNCHANGED <<name, shards, expire, disk, released, now, snap>>

\* the other process stores a key; `snap` gathers what the handle held at
\* some moment of the running scan
WriterSet(k, value) ==
  /\ disk' = EngineSet(disk, N, k, value, NoneTime, "None", now)
  /\ Rows(disk') <= MaxEntries
  /\ snap' = IF run.pc = "scan" THEN [snap EXCEPT !.entries = @ \cup Entries(disk', N)]
             ELSE snap
  /\ UNCHANGED <<run, name, shards, expire, cache, released, now, last>>

\* the other process deletes a key
WriterDelete(k) ==
  /\ Has(disk, N, k)
  /\ disk' = EngineDel(disk, N, k)
  /\ UNCHANGED <<run, name, shards, expire, cache, released, now, last, snap>>

\* -------------------------------------------------------------- the codec
\* a caller's makey(*args)
MakeyCall(args) ==
  /\ last = Idle
  /\ last' = IF MakeyRaises(args)
             THEN Call("makey", args, <<>>, "IndexError", <<>>)
             ELSE Call("makey", args, <<>>, "no", Makey(args))
  /\ snap' = NoSnap
  /\ UNCHANGED <<run, name, shards, expire, disk, cache, released, now>>

\* the caller passes the key makey returned to makey again: makey(makey(*args))
MakeyAgain ==
  /\ last.op = "makey" /\ last.raised = "no"
  /\ last' = Call("makey2", last.key, <<last.ret>>, "no", Makey(<<last.ret>>))
  /\ UNCHANGED <<run, name, shards, expire, disk, cache, released, now, snap>>

\* the call has returned or raised; the caller goes on
Return ==
  /\ last # Idle /\ run = NoRun
  /\ last' = Idle
  /\ UNCHANGED <<run, name, shards, expire, disk, cache, released, now, snap>>

\* ------------------------------------------------------------ construction
\* DataStore(cache_path, shards=s) on an empty directory: expire is None
Init ==
  /\ name \in Names
  /\ shards \in ShardCounts
  /\ expire = NoneTime
  /\ disk = [i \in ShardIds |-> EmptyShard]
  /\ cache = [id |-> 1, n |-> shards, open |-> FALSE]
  /\ released = <<>>
  /\ now = 1
  /\ last = Idle
  /\ snap = NoSnap
  /\ run = NoRun

\* what the callers of get_startswith pass: <<match_part, keys_only>>
ScanFlags == {<<FALSE, FALSE>>, <<FALSE, TRUE>>, <<TRUE, FALSE>>}

\* what the callers of set pass: <<value, expire, tag, close>>
Writes ==
  {<<"v1", NoneTime, "None", TRUE>>, <<"v2", TTL, "t", TRUE>>,
   <<"v2", NoneTime, "None", FALSE>>}

Next ==
  \/ \E sArg \in {0} \cup ShardCounts, sup \in Supplied : InitCache(sArg, sup)
  \/ \E key \in KeyArgs : Get(key, TRUE)
  \/ \E match_elts \in Prefixes \cup {<<>>}, f \in ScanFlags :
       GetStartswith(match_elts, f[1], f[2])
  \/ \E key \in KeyArgs, w \in Writes : Set(key, w[1], w[2], w[3], w[4])
  \/ \E key \in KeyArgs, value \in Values : Add(key, value, NoneTime, "None", TRUE)
  \/ \E key \in KeyArgs : Delete(key, TRUE)
  \/ \E startswith \in Prefixes \cup {<<>>} : ClearKeys(startswith, TRUE)
  \/ Return

Spec == Init /\ [][Next]_vars

\* ---- the key codec alone: makey on the names and element lists below
CodecNames == {<<>>, <<"c">>, <<"A">>, <<"c", ":", "A">>}
\* the elements: "", "A", "B", "c", and "c:A", which holds the delimiter
CodecElts == {<<>>, eA, eB, <<"c">>, <<"c", ":", "A">>}
CodecArgs ==
  {<<>>} \cup {<<e>> : e \in CodecElts} \cup {<<e, f>> : e \in CodecElts, f \in CodecElts}

CodecInit ==
  /\ name \in CodecNames
  /\ shards = 1
  /\ expire = NoneTime
  /\ disk = [i \in ShardIds |-> EmptyShard]
  /\ cache = [id |-> 1, n |-> shards, open |-> FALSE]
  /\ released = <<>>
  /\ now = 1
  /\ last = Idle
  /\ snap = NoSnap
  /\ run = NoRun

CodecNext ==
  \/ \E args \in CodecArgs : MakeyCall(args)
  \/ MakeyAgain
  \/ Return

CodecSpec == CodecInit /\ [][CodecNext]_vars

\* ---- two stores on one handle: subclasses named "A" and "AB" whose
\* self.cache is the same FanoutCache; `name` is the store the caller addresses
SharedNames == {eA, eAB}
SharedKeys == {<<"list", lk>> : lk \in {<<>>, <<eA>>, <<eB>>, <<eB, eA>>}}
SharedPrefixes == {<<>>, <<eA>>, <<eB>>}

\* the caller turns to the other store
OtherStore ==
  /\ last = Idle
  /\ name' \in SharedNames \ {name}
  /\ UNCHANGED <<run, shards, expire, disk, cache, released, now, last, snap>>

SharedInit ==
  /\ name \in SharedNames
  /\ shards \in ShardCounts
  /\ expire = NoneTime
  /\ disk = [i \in ShardIds |-> EmptyShard]
  /\ cache = [id |-> 1, n |-> shards, open |-> FALSE]
  /\ released = <<>>
  /\ now = 1
  /\ last = Idle
  /\ snap = NoSnap
  /\ run = NoRun

SharedNext ==
  \/ OtherStore
  \/ \E key \in SharedKeys : Get(key, TRUE)
  \/ \E match_elts \in SharedPrefixes, f \in ScanFlags :
       GetStartswith(match_elts, f[1], f[2])
  \/ \E key \in SharedKeys, w \in Writes : Set(key, w[1], w[2], w[3], w[4])
  \/ \E key \in SharedKeys, value \in Values : Add(key, value, NoneTime, "None", TRUE)
  \/ \E key \in SharedKeys : Delete(key, TRUE)
  \/ \E startswith \in SharedPrefixes : ClearKeys(startswith, TRUE)
  \/ Return

SharedSpec == SharedInit /\ [][SharedNext]_vars

\* ---- resizing step by step, on a store filled by set
MigNext ==
  \/ \E sArg \in {0} \cup ShardCounts : MigBegin(sArg)
  \/ MigClear
  \/ MigCopy
  \/ MigFail
  \/ MigSwap
  \/ \E key \in KeyArgs, w \in Writes : Set(key, w[1], w[2], w[3], w[4])
  \/ Return

MigSpec == Init /\ [][MigNext]_vars

\* ---- every public operation, each with its default close setting; the
\* engine may raise in a write of set_from_dict or a delete of clear_keys
Dicts ==
  {<<<<<<"list", <<eA>>>>, "v1">>, <<<<"list", <<eA, eB>>>>, "v2">>>>,
   <<<<<<"list", <<eA>>>>, "v2">>, <<<<"list", <<>>>>, "v1">>>>}
\* the write or delete at which the engine raises, 0 for none
FailAts == {0, 1, 2}
\* the keys of the single-key operations
OpsKeys == {<<"list", <<>>>>, <<"list", <<eA>>>>, <<"list", <<eA, eB>>>>}

OpsNext ==
  \/ \E sArg \in {0} \cup ShardCounts, sup \in Supplied : InitCache(sArg, sup)
  \/ \E key \in OpsKeys : Get(key, TRUE)
  \/ \E match_elts \in Prefixes \cup {<<>>}, f \in ScanFlags :
       GetStartswith(match_elts, f[1], f[2])
  \/ GetStartswithOther
  \/ \E as_dict \in BOOLEAN : Items(as_dict)
  \/ \E key \in OpsKeys, w \in {x \in Writes : x[4]} : Set(key, w[1], w[2], w[3], w[4])
  \/ \E key \in OpsKeys, value \in Values : Add(key, value, NoneTime, "None", TRUE)
  \/ \E data_dict \in Dicts, add \in BOOLEAN, failAt \in FailAts :
       SetFromDict(data_dict, {}, add, TRUE, failAt)
  \/ \E key \in OpsKeys : Delete(key, TRUE)
  \/ Clear(TRUE)
  \/ ClearAll
  \/ \E startswith \in Prefixes \cup {<<>>} : ClearKeys(startswith, TRUE)
  \/ \E startswith \in Prefixes, failAt \in FailAts \ {0} :
       ClearKeysFault(startswith, TRUE, failAt)
  \/ \E tag \in Tags : Evict(tag)
  \/ Expire
  \/ Check
  \/ Volume
  \/ Return

OpsSpec == Init /\ [][OpsNext]_vars

\* ---- prefix scans with a concurrent writer
\* the keys the other process writes: the physical keys of the logical ones
WriterKeys == {Makey(lk) : lk \in LKeys}

ConcNext ==
  \/ \E match_elts \in Prefixes, f \in ScanFlags : ScanBegin(match_elts, f[1], f[2])
  \/ ScanStep
  \/ ScanEnd
  \/ \E startswith \in Prefixes : ClearBegin(startswith, TRUE)
  \/ ClearStep
  \/ ClearEnd
  \/ \E k \in WriterKeys, value \in Values : WriterSet(k, value)
  \/ \E k \in WriterKeys : WriterDelete(k)
  \/ Return

ConcSpec == Init /\ [][ConcNext]_vars

\* ------------------------------------------------------------------ claims
\* the shard count an init_cache(shards=sArg) call works with
Requested(sArg) == IF sArg = 0 THEN shards ELSE sArg

\* C1: when init_cache is called with a shard count different from the
\* configured one and returns, the new active handle lists exactly the keys
\* the old one listed, as many of them, each with the value and tag it had.
C1_MigrationFidelity ==
  [][(last'.op = "init_cache" /\ Requested(last'.args[1]) # shards /\ last'.raised = "no")
     => /\ KeySet(disk', N') = KeySet(disk, N)
        /\ CacheLen(disk', N') = CacheLen(disk, N)
        /\ Entries(disk', N') = Entries(disk, N)]_vars

\* C2: after a reshard every migrated entry (a key the old and the new handle
\* both hold) has the absolute expiration time it had in the old handle, and
\* none when it had none.
C2_ExpirationPreserved ==
  [][(last'.op = "init_cache" /\ Requested(last'.args[1]) # shards /\ last'.raised = "no")
     => \A k \in KeySet(disk, N) :
          (Has(disk, N, k) /\ Has(disk', N', k))
          => Lookup(disk', N', k, "None").e = Lookup(disk, N, k, "None").e]_vars

\* C3: init_cache(shards=S2), S2 different from the configured count S,
\* followed by init_cache(shards=S), leaves the active handle holding exactly
\* the entries it held before the first of the two calls.
C3_RoundTripLossless ==
  [][(snap.valid /\ last'.op = "init_cache" /\ last'.args[1] = shards
      /\ last'.raised = "no")
     => Entries(disk', N') = snap.entries]_vars

\* ---- the claims' vocabulary: keys as element sequences
RECURSIVE Split(_)
\* key.split(delim)
Split(k) ==
  IF \A i \in 1..Len(k) : <<k[i]>> # delim THEN <<k>>
  ELSE LET i == CHOOSE j \in 1..Len(k) : <<k[j]>> = delim /\ \A h \in 1..(j - 1) : <<k[h]>> # delim
       IN <<SubSeq(k, 1, i - 1)>> \o Split(SubSeq(k, i + 1, Len(k)))

\* [name] + P, the name being left out when it is empty
Prefixed(P) == IF name = <<>> THEN P ELSE <<name>> \o P

\* the element sequence a strictly extends the element sequence b
StrictlyExtends(a, b) == Len(a) > Len(b) /\ SubSeq(a, 1, Len(b)) = b

\* the keys of the active handle under the whole-element prefix P
KeysUnder(d, n, P) == {k \in KeySet(d, n) : StrictlyExtends(Split(k), Prefixed(P))}

\* the keys among the items get_startswith returned
ReturnedKeys(items, keys_only) ==
  {IF keys_only THEN items[i] ELSE items[i][1] : i \in 1..Len(items)}

EmptyKey == <<"list", <<>>>>

\* C4: get_startswith(P) with match_part=False returns exactly the keys of the
\* handle whose element sequence strictly extends [name]+P, and with
\* match_part=True exactly the keys whose string starts with the joined prefix;
\* with keys_only it always returns.
C4_PrefixExact ==
  (last.op = "get_startswith" /\ last.key \in Prefixes)
  => /\ last.args[2] => last.raised = "no"
     /\ last.raised = "no" =>
          ReturnedKeys(last.ret, last.args[2]) =
            IF last.args[1]
            THEN {k \in KeySet(disk, N) : StartsWith(k, Join(Prefixed(last.key)))}
            ELSE KeysUnder(disk, N, last.key)

\* a whole-element scan that told c:A:A and c:A:B from c:AB:B
C4_Witness ==
  /\ last.op = "get_startswith" /\ last.key = <<eA>> /\ last.args = <<FALSE, FALSE>>
  /\ last.raised = "no" /\ Len(last.ret) = 1
  /\ \E k \in KeySet(disk, N) : StartsWith(k, Makey(<<eA>>)) /\ k \notin KeysUnder(disk, N, <<eA>>)

\* C5: when clear_keys(P) completes it has removed exactly the keys
\* get_startswith(P, keys_only=True) returns: no key under the prefix P is left
\* in the handle, and every other row is where it was, unchanged.
C5_ClearKeysFrame ==
  [][(last'.op = "clear_keys" /\ last'.key \in Prefixes /\ last'.raised = "no")
     => /\ ReturnedKeys(last'.ret, TRUE) = KeysUnder(disk, N, last'.key)
        /\ KeysUnder(disk', N', last'.key) = {}
        /\ KeySet(disk', N') = KeySet(disk, N) \ KeysUnder(disk, N, last'.key)
        /\ \A i \in DOMAIN disk : \A k \in DOMAIN disk[i] :
             k \notin KeysUnder(disk, N, last'.key)
             => k \in DOMAIN disk'[i] /\ disk'[i][k] = disk[i][k]]_vars

\* clear_keys removed a key and left another
C5_Witness ==
  /\ last.op = "clear_keys" /\ last.raised = "no" /\ last.ret # <<>>
  /\ KeySet(disk, N) # {}

\* C6: add on a present key changes nothing and does not raise, add on an
\* absent key stores the value, set always leaves the key holding the value;
\* a second add keeps the first value and a second set leaves the second.
C6_AddVersusSet ==
  [][(last'.op \in {"add", "set"} /\ ~KeyRaises(last'.key))
     => LET k == PhysKey(last'.key)
            value == last'.args[2]
        IN /\ last'.raised = "no"
           /\ last'.op = "add" =>
                /\ Has(disk, N, k) => disk' = disk
                /\ ~Has(disk, N, k) => Lookup(disk', N', k, "default").v = value
           /\ last'.op = "set" => Lookup(disk', N', k, "default").v = value]_vars

\* an add that met a row written by set(..., tag="t") and left it alone
C6_Witness ==
  /\ last.op = "add" /\ last.raised = "no" /\ ~KeyRaises(last.key)
  /\ Lookup(disk, N, PhysKey(last.key), "default").t = "t"

\* C7: delete of an absent key raises KeyError and changes no row, delete of
\* a present key removes that row and no other, get of an absent key returns
\* the default without raising and changes no row.
C7_AbsentKey ==
  [][(last'.op \in {"delete", "get"} /\ ~KeyRaises(last'.key))
     => LET k == PhysKey(last'.key)
        IN /\ (last'.op = "delete" /\ ~Has(disk, N, k))
              => last'.raised = "KeyError" /\ disk' = disk
           /\ (last'.op = "delete" /\ Has(disk, N, k))
              => /\ last'.raised = "no"
                 /\ ~Has(disk', N', k)
                 /\ Rows(disk') = Rows(disk) - 1
                 /\ \A i \in DOMAIN disk : \A x \in DOMAIN disk[i] :
                      <<i, x>> # <<ShardOf(k, N), k>>
                      => x \in DOMAIN disk'[i] /\ disk'[i][x] = disk[i][x]
           /\ (last'.op = "get" /\ ~Has(disk, N, k))
              => last'.raised = "no" /\ last'.ret = "default" /\ disk' = disk]_vars

\* a delete of an absent key, rows being on disk
C7_Witness == last.op = "delete" /\ last.raised = "KeyError" /\ Rows(disk) > 0

\* C8: whenever a public operation called with its default close setting
\* raises, the storage handle is closed when the exception reaches the caller.
C8_ClosedOnError ==
  (/\ last.op \in {"get", "set", "add", "delete", "get_startswith", "clear_keys"}
   /\ last.raised # "no"
   /\ last.op # "get_startswith" => last.args[1])
  => ~cache.open

\* C9: get, set, add and delete called with an empty list or tuple key raise
\* the invalid-key error before any storage operation, whatever the name is,
\* and leave the entries unchanged.
C9_EmptyKeyRejected ==
  [][(last'.op \in {"get", "set", "add", "delete"} /\ last'.key = EmptyKey)
     => (last'.raised = "IndexError" /\ disk' = disk /\ cache' = cache)]_vars

\* C10: init_cache given a handle whose directory differs from cache_path
\* always fails, whatever the handle contains, and leaves the active handle
\* reference, the handles and all entries unchanged.
C10_PathConflict ==
  [][(last'.op = "init_cache" /\ last'.args[2].dir = "other")
     => /\ last'.raised = "Exception"
        /\ cache' = cache /\ released' = released /\ disk' = disk]_vars

\* C14: the configured shard count self.shards is the shard count of the
\* active handle whenever no init_cache call is in progress; after every
\* init_cache(shards=n) that returns, the configured count is n.
C14_Stable == shards = N

\* C16: when init_cache completes a migration, the active handle is the new
\* handle and the old handle, the one that was active when the call began, is
\* closed, also when an earlier call with close=False left it open.
C16_SwapAndClose ==
  [][(last'.op = "init_cache" /\ Requested(last'.args[1]) # shards /\ last'.raised = "no")
     => /\ cache'.id > cache.id
        /\ Len(released') > Len(released)
        /\ ~released'[Len(released) + 1]]_vars

\* ---- the claims' vocabulary: decoding a physical key
\* no element of the list holds the delimiter
DelimFree(args) == \A i \in 1..Len(args) : \A j \in 1..Len(args[i]) : <<args[i][j]>> # delim

\* the physical key without its leading name+delim, when the name is not empty
Unprefixed(k) ==
  IF name # <<>> /\ StartsWith(k, name \o delim)
  THEN SubSeq(k, Len(name) + 2, Len(k)) ELSE k

\* decode: drop the leading name, split the rest on the delimiter
Decode(k) == Split(Unprefixed(k))

\* C11: makey applied to the key makey returned for a non-empty element list
\* returns that key again, whatever the name is (no second name prefix), and
\* with a non-empty name every key makey returns starts with name+delim.
C11_IdempotentPrefix ==
  /\ (last.op = "makey2" /\ last.key # <<>>) => last.ret = last.args[1]
  /\ (last.op \in {"makey", "makey2"} /\ last.raised = "no" /\ name # <<>>)
     => StartsWith(last.ret, name \o delim)

\* makey met a first element that already began with name+delim, twice
C11_Witness ==
  /\ last.op = "makey2" /\ name = <<"c">>
  /\ last.key = <<<<"c", ":", "A">>, eB>>
  /\ last.ret = <<"c", ":", "A", ":", "B">>

\* C12: for a non-empty element list without delimiter in its elements,
\* decoding the key makey returns gives the list back, and no other such list
\* is encoded to the same key.
C12_RoundTrip ==
  (last.op = "makey" /\ last.key # <<>> /\ DelimFree(last.key))
  => /\ last.raised = "no"
     /\ Decode(last.ret) = last.key
     /\ \A other \in CodecArgs :
          (other # <<>> /\ DelimFree(other) /\ Makey(other) = last.ret) => other = last.key

\* a two-element list, the first element empty, encoded under the name "c"
C12_Witness ==
  /\ last.op = "makey" /\ name = <<"c">> /\ last.key = <<<<>>, eB>>
  /\ last.ret = <<"c", ":", ":", "B">>

\* ---- the claims' vocabulary: the rows of a store on a shared handle
\* the rows under the name nm: shard, key and entry
Owned(d, nm) ==
  UNION {{<<i, k, d[i][k]>> : k \in {x \in DOMAIN d[i] : StartsWith(x, nm \o delim)}} :
           i \in DOMAIN d}

\* C13: on a handle shared by two stores of distinct non-empty names, a call
\* of one store with a sequence key addresses a key under its own name only:
\* what set and add write lands under the caller's name, the keys
\* get_startswith and clear_keys match are under the caller's name, and the
\* rows under the other store's name are the same after the call as before.
C13_Isolation ==
  [][(last = Idle /\ last'.op \in {"get", "set", "add", "delete", "get_startswith", "clear_keys"})
     => \A other \in SharedNames \ {name} :
          /\ Owned(disk', other) = Owned(disk, other)
          /\ (last'.op \in {"get", "set", "add", "delete"} /\ last'.raised # "IndexError")
             => /\ StartsWith(PhysKey(last'.key), name \o delim)
                /\ ~StartsWith(PhysKey(last'.key), other \o delim)
          /\ (last'.op \in {"set", "add"} /\ last'.raised = "no")
             => \E r \in Owned(disk', name) : r[2] = PhysKey(last'.key)
          /\ (last'.op = "get" /\ last'.raised = "no" /\ last'.ret # "default")
             => \E r \in Owned(disk, name) : r[2] = PhysKey(last'.key) /\ r[3].v = last'.ret
          /\ (last'.op \in {"get_startswith", "clear_keys"} /\ last'.raised = "no")
             => \A k \in ReturnedKeys(last'.ret, last'.op = "clear_keys" \/ last'.args[2]) :
                  StartsWith(k, name \o delim) /\ ~StartsWith(k, other \o delim)]_vars

\* store "A" cleared its keys under the prefix B while store "AB" held a row
C13_Witness ==
  /\ last.op = "clear_keys" /\ name = eA /\ last.key = <<eB>> /\ last.ret # <<>>
  /\ Owned(disk, eAB) # {}

\* the handles on cache_path that are connected
OpenHandles ==
  (IF cache.open THEN 1 ELSE 0) + (IF run.new.open THEN 1 ELSE 0)
  + Cardinality({i \in 1..Len(released) : released[i]})

\* C15: at most one handle on cache_path is connected in every state, the
\* states between two statements of init_cache and copy_cache included.
C15_OneOpenHandle == OpenHandles <= 1

\* C17: when the copy of init_cache fails, the active handle is still the old
\* one and holds the entries it held when the call began; and when a retry
\* with the same shard count runs to completion, the new active handle holds
\* exactly the entries the old handle held when the failed call began.
C17_FailedMigration ==
  [][/\ (last'.op = "init_cache" /\ last'.raised = "OSError" /\ snap.failed = 0)
        => /\ cache'.id = cache.id /\ cache'.n = cache.n
           /\ Entries(disk', N') = snap.entries
     /\ (last'.op = "init_cache" /\ last.raised = "running" /\ last'.raised = "no"
         /\ snap.failed # 0)
        => /\ cache'.n = snap.failed
           /\ Entries(disk', N') = snap.entries]_vars

\* the call returned at the top of get_startswith, before any engine call
EarlyReturn(call) == call.op = "get_startswith" /\ Len(call.args) = 3

\* C18: a public operation called with its default close setting that returns
\* normally leaves the handle closed; the one return that touches no handle
\* (get_startswith on an unsupported match_elts) leaves it as it was.  The
\* store being constructed with its handle closed, the handle is closed after
\* every sequence of such calls.
C18_ScopedHandle ==
  [][(last = Idle /\ last' # Idle /\ last'.raised = "no")
     => IF EarlyReturn(last') THEN cache'.open = cache.open ELSE ~cache'.open]_vars

\* items, which reads every row with close=False, came back with the handle
\* closed
C18_Witness ==
  /\ last.op = "items" /\ last.args = <<FALSE>> /\ last.raised = "no"
  /\ Len(last.ret) = 2 /\ ~cache.open

\* C20: when clear_keys or set_from_dict raises, the entries of the handle
\* are those it held before the call, however many keys the call had
\* processed by then.
C20_NoPartialEffect ==
  [][(last = Idle /\ last'.op \in {"clear_keys", "set_from_dict"} /\ last'.raised # "no")
     => Entries(disk', N') = Entries(disk, N)]_vars

\* C19: with another writer inserting and deleting keys while get_startswith
\* or clear_keys runs, the operation does not fail, and every (key, value)
\* pair get_startswith returns was held by the handle at some moment of the
\* scan.
C19_SnapshotlessScan ==
  /\ last.op \in {"get_startswith", "clear_keys"} => last.raised \in {"running", "no"}
  /\ (last.op = "get_startswith" /\ last.raised = "no" /\ ~last.args[2] /\ snap.valid)
     => \A i \in 1..Len(last.ret) :
          \E e \in snap.entries : e[1] = last.ret[i][1] /\ e[2] = last.ret[i][2]

====
